---------------------------- MODULE Spec2Model ----------------------------
(***************************************************************************)
(* A model of ris_from_inspirehep.py: the author selector (select), the    *)
(* record transformer (get_ris), the DOI extraction of the exclusion set   *)
(* loader (exclude_dois_from) and the paginated fetch loop of __main__.    *)
(*                                                                         *)
(* Python strings are TLA+ strings; TLC evaluates Len, SubSeq and \o on    *)
(* them, so the string functions below work character by character.        *)
(***************************************************************************)
EXTENDS Integers, Sequences, FiniteSets, TLC

VARIABLES
  pc,               \* fetcher: Idle, AwaitingResponse, RateLimited, Done, Fatal
  url,              \* the loop variable url ("" ends the loop)
  page_nr,          \* the loop's page counter
  nof_hits,         \* hits['total'] of the first page, -1 before
  ris_data,         \* the accumulated export blocks
  error,            \* the exception that ended the run, "" if none
  last_status,      \* status code of the last response, 0 before any
  requests,         \* history: url -> number of requests.get(url) issued
  limited,          \* history: url -> number of 429 responses received
  consumed,         \* history: number of 200 pages whose records were all processed
  expected,         \* history: records of processed pages with non-empty get_ris
  name,             \* args.name
  keep_affiliation, \* args.keep_affiliation
  dois_to_exclude,  \* exclude_dois_from(args.exclude)
  call,             \* function-level specifications: the function and its arguments
  ret               \* function-level specifications: its outcome, NoRet before

vars == << pc, url, page_nr, nof_hits, ris_data, error, last_status, requests,
           limited, consumed, expected, name, keep_affiliation, dois_to_exclude,
           call, ret >>

fetch_vars == << pc, url, page_nr, nof_hits, ris_data, error, last_status,
                 requests, limited, consumed, expected >>

arg_vars == << name, keep_affiliation, dois_to_exclude >>

---------------------------------------------------------------------------
(* Bounds of the model.                                                    *)

MaxPages == 3       \* pages the server holds at most
MaxPerPage == 2     \* records on one page at most
Max429 == 2         \* 429 answers in one run at most
MaxFillers == 11    \* unaffiliated co-authors added to an author list at most
MaxCollabs == 3     \* collaborations of one record at most
MaxParts == 3       \* fragments a DOI string is composed of at most

---------------------------------------------------------------------------
(* Program constants.                                                      *)

AFFIL == "NICPB, Tallinn"

ALIASES == [ n \in {"Carvalho Antunes De Oliveira, Alexandra", "Ehataht, Karl"} |->
               IF n = "Ehataht, Karl" THEN "Ehatäht, Karl" ELSE "Oliveira, Alexandra" ]

DOCTYPES == [ t \in {"article", "conference paper"} |->
                IF t = "article" THEN "JOUR" ELSE "CONF" ]

CollabAuthorLimit == 10

---------------------------------------------------------------------------
(* Python's str and list primitives.                                       *)

\* The characters of the model's strings in code point order.
CodePoints ==
  "\n (),-./0123456789:ABCDEFGHIJKLMNOPQRSTUVWXYZ_abcdefghijklmnopqrstuvwxyzä"

Char(s, i) == SubSeq(s, i, i)

\* the least element of a non-empty set of integers
Least(S) == CHOOSE i \in S : \A j \in S : i <= j

\* s.find(sub, i - 1) + 1: the first position >= i where sub occurs in s, 0 if none
Find(s, sub, i) ==
  LET at == { j \in i..(Len(s) - Len(sub) + 1) : SubSeq(s, j, j + Len(sub) - 1) = sub }
  IN IF at = { } THEN 0 ELSE Least(at)

RECURSIVE OrdFrom(_)
OrdFrom(i) ==
  IF i = Len(CodePoints) THEN Char(CodePoints, i) :> i
  ELSE (Char(CodePoints, i) :> i) @@ OrdFrom(i + 1)

\* character -> its rank among the characters of CodePoints
OrdTable == OrdFrom(1)

ord(c) == OrdTable[c]

\* a < b on Python strings: lexicographic by code point
StrLess(a, b) ==
  LET differ == { i \in 1..Len(a) : i > Len(b) \/ Char(a, i) # Char(b, i) }
  IN IF differ = { } THEN Len(a) < Len(b)
     ELSE LET i == Least(differ)
          IN i <= Len(b) /\ ord(Char(a, i)) < ord(Char(b, i))

RECURSIVE Insert(_, _)
Insert(x, arr) ==
  IF arr = << >> THEN << x >>
  ELSE IF StrLess(x, Head(arr)) THEN << x >> \o arr
  ELSE << Head(arr) >> \o Insert(x, Tail(arr))

RECURSIVE sorted(_)
\* sorted(list of str)
sorted(arr) ==
  IF arr = << >> THEN << >> ELSE Insert(Head(arr), sorted(Tail(arr)))

startswith(s, p) == Len(p) <= Len(s) /\ SubSeq(s, 1, Len(p)) = p

endswith(s, p) == Len(p) <= Len(s) /\ SubSeq(s, Len(s) - Len(p) + 1, Len(s)) = p

RECURSIVE replace(_, _, _)
\* s.replace(old, new) for a non-empty old: leftmost, non-overlapping
replace(s, old, new) ==
  LET i == Find(s, old, 1)
  IN IF i = 0 THEN s
     ELSE SubSeq(s, 1, i - 1) \o new \o replace(SubSeq(s, i + Len(old), Len(s)), old, new)

IsSpace(c) == c \in {" ", "\n", "\t", "\r"}

\* s.strip()
strip(s) ==
  LET inked == { i \in 1..Len(s) : ~IsSpace(Char(s, i)) }
  IN IF inked = { } THEN ""
     ELSE SubSeq(s, Least(inked), CHOOSE i \in inked : \A j \in inked : j <= i)

RECURSIVE split(_, _)
\* s.split(sep) for a non-empty sep
split(s, sep) ==
  LET i == Find(s, sep, 1)
  IN IF i = 0 THEN << s >>
     ELSE << SubSeq(s, 1, i - 1) >> \o split(SubSeq(s, i + Len(sep), Len(s)), sep)

RECURSIVE join(_, _)
\* sep.join(arr)
join(sep, arr) ==
  IF arr = << >> THEN ""
  ELSE IF Len(arr) = 1 THEN arr[1]
  ELSE arr[1] \o sep \o join(sep, Tail(arr))

LowerCase == "abcdefghijklmnopqrstuvwxyz"
UpperCase == "ABCDEFGHIJKLMNOPQRSTUVWXYZ"

RECURSIVE UpperFrom(_)
UpperFrom(i) ==
  IF i = Len(LowerCase) THEN Char(LowerCase, i) :> Char(UpperCase, i)
  ELSE (Char(LowerCase, i) :> Char(UpperCase, i)) @@ UpperFrom(i + 1)

\* lower-case letter -> upper-case letter
UpperTable == UpperFrom(1)

RECURSIVE upper(_)
\* s.upper(), for strings whose letters are ASCII
upper(s) ==
  IF Len(s) = 0 THEN ""
  ELSE LET c == Char(s, 1)
       IN (IF c \in DOMAIN UpperTable THEN UpperTable[c] ELSE c) \o upper(Tail(s))

\* x in arr, for a list
InList(x, arr) == \E i \in 1..Len(arr) : arr[i] = x

\* key in d, for a dict
HasKey(d, k) == k \in DOMAIN d

\* Outcomes of a call: a returned value or a raised exception.
Return(v) == [kind |-> "return", val |-> v, exc |-> ""]
Raise(e) == [kind |-> "raise", val |-> << >>, exc |-> e]
NoRet == [kind |-> "none", val |-> << >>, exc |-> ""]

---------------------------------------------------------------------------
(* The pure functions of the program.                                      *)

get_doctype(doctype) ==
  IF doctype \notin DOMAIN DOCTYPES THEN Raise("RuntimeError")
  ELSE Return(DOCTYPES[doctype])

\* A plausible slip: a comma before the final and.
join_with_oxford_and(arr) ==
  IF arr = << >> THEN Raise("AssertionError")
  ELSE IF Len(arr) = 1 THEN Return(arr[1])
  ELSE IF Len(arr) = 2 THEN Return(arr[1] \o " and " \o arr[2])
  ELSE Return(join(", ", SubSeq(arr, 1, Len(arr) - 1)) \o ", and " \o arr[Len(arr)])

\* join_with_and(arr); assert(arr) fails on an empty list
join_with_and(arr) ==
  IF arr = << >> THEN Raise("AssertionError")
  ELSE IF Len(arr) = 1 THEN Return(arr[1])
  ELSE IF Len(arr) = 2 THEN Return(arr[1] \o " and " \o arr[2])
  ELSE Return(join(", ", SubSeq(arr, 1, Len(arr) - 1)) \o " and " \o arr[Len(arr)])

\* A plausible slip: any author with an affiliation is selected.
RECURSIVE AffiliatedAnywhere(_)
AffiliatedAnywhere(authors) ==
  IF authors = << >> THEN << >>
  ELSE LET author_item == Head(authors)
           rest == AffiliatedAnywhere(Tail(authors))
       IN IF ~HasKey(author_item, "affiliations") THEN rest
          ELSE IF author_item.affiliations # << >>
               THEN << author_item.full_name >> \o rest
               ELSE rest

\* The authors of the list that carry the affiliation AFFIL (the loop of select).
RECURSIVE Affiliated(_)
Affiliated(authors) ==
  IF authors = << >> THEN << >>
  ELSE LET author_item == Head(authors)
           rest == Affiliated(Tail(authors))
       IN IF ~HasKey(author_item, "affiliations") THEN rest
          ELSE IF \E i \in 1..Len(author_item.affiliations) :
                    author_item.affiliations[i].value = AFFIL
               THEN << author_item.full_name >> \o rest
               ELSE rest

\* selected_authors.append(author): select has no local named author and the
\* module binds no global of that name, so evaluating it raises NameError.
AppendTarget(selected_authors, target) == Raise("NameError")

Aliased(selected_authors) ==
  [ i \in 1..Len(selected_authors) |->
      IF selected_authors[i] \in DOMAIN ALIASES THEN ALIASES[selected_authors[i]]
      ELSE selected_authors[i] ]

select(authors, target, keep) ==
  LET candidates == Affiliated(authors)
      chosen ==
        IF ~InList(target, candidates)
        THEN IF target \in DOMAIN ALIASES /\ InList(ALIASES[target], candidates)
             THEN Return(candidates)
             ELSE IF keep THEN AppendTarget(candidates, target)
                  ELSE Return(<< >>)
        ELSE Return(candidates)
  IN IF chosen.kind = "raise" THEN chosen
     ELSE Return(sorted(Aliased(chosen.val)))

\* Lines 162-165 of get_ris: the collaboration string of a record.
collab_str(collaborations) ==
  LET collabs == sorted([ i \in 1..Len(collaborations) |-> collaborations[i].value ])
      joined == join_with_and(collabs)
  IN IF joined.kind = "raise" THEN joined
     ELSE Return(joined.val \o " Collaboration" \o (IF Len(collabs) > 1 THEN "s" ELSE ""))

\* A plausible slip: the comparison with the limit is off by one.
WithCollaborationUpTo(selected_authors, cstr, nof_authors_total) ==
  IF nof_authors_total <= CollabAuthorLimit
  THEN [ selected_authors EXCEPT ![Len(selected_authors)] = @ \o " (for the " \o cstr \o ")" ]
  ELSE Append(selected_authors, "et al. (" \o cstr \o ")")

\* Lines 166-169 of get_ris: the author list with the collaboration credit.
WithCollaboration(selected_authors, cstr, nof_authors_total) ==
  IF nof_authors_total < CollabAuthorLimit
  THEN [ selected_authors EXCEPT ![Len(selected_authors)] = @ \o " (for the " \o cstr \o ")" ]
  ELSE Append(selected_authors, "et al. (" \o cstr \o ")")

\* One entry of the OrderedDict ris: a scalar or a list value.
Scalar(k, v) == [k |-> k, list |-> FALSE, v |-> v, vs |-> << >>]
List(k, vs) == [k |-> k, list |-> TRUE, v |-> "", vs |-> vs]

\* Lines 172-180 of get_ris: one line per scalar, one line per list element.
RECURSIVE ris_lines(_)
ris_lines(ris) ==
  IF ris = << >> THEN << >>
  ELSE LET item == Head(ris)
           ris_key_upper == upper(item.k)
       IN (IF item.list
           THEN [ i \in 1..Len(item.vs) |-> ris_key_upper \o "  - " \o item.vs[i] ]
           ELSE << ris_key_upper \o "  - " \o item.v >>) \o ris_lines(Tail(ris))

\* Index of the first publication_info entry with a year, 0 if none (pub_idx + 1).
RECURSIVE FirstWithYear(_, _)
FirstWithYear(publication_info, i) ==
  IF i > Len(publication_info) THEN 0
  ELSE IF HasKey(publication_info[i], "year") THEN i
  ELSE FirstWithYear(publication_info, i + 1)

\* Lines 146-153 of get_ris: the optional fields sp, ep and av.
Optional(json_metadata, pubinfo) ==
  (IF HasKey(pubinfo, "page_start") THEN << Scalar("sp", pubinfo.page_start) >> ELSE << >>)
  \o (IF HasKey(pubinfo, "page_end") THEN << Scalar("ep", pubinfo.page_end) >> ELSE << >>)
  \o (IF HasKey(json_metadata, "documents") /\ HasKey(json_metadata.documents[1], "url")
      THEN << Scalar("av", json_metadata.documents[1].url) >>
      ELSE IF HasKey(json_metadata, "urls") /\ HasKey(json_metadata.urls[1], "value")
           THEN << Scalar("av", json_metadata.urls[1].value) >>
           ELSE << >>)

\* Lines 155-180 of get_ris: author selection, collaboration credit, serialization.
Authored(json_metadata, ris, target, keep) ==
  LET authors_all == json_metadata.authors
      nof_authors_total == Len(authors_all)
      selected_authors == select(authors_all, target, keep)
  IN IF selected_authors.kind = "raise" THEN selected_authors
     ELSE IF selected_authors.val = << >> THEN Return(<< >>)
     ELSE IF HasKey(json_metadata, "collaborations")
          THEN LET cstr == collab_str(json_metadata.collaborations)
               IN IF cstr.kind = "raise" THEN cstr
                  ELSE Return(ris_lines(Append(ris,
                         List("au", WithCollaboration(selected_authors.val, cstr.val,
                                                      nof_authors_total)))))
          ELSE Return(ris_lines(Append(ris, List("au", selected_authors.val))))

\* f"https://dx.doi.org/{doi}"
DoiUrl(doi) == "https://dx.doi.org/" \o doi

\* A plausible slip: the URL of the DOI is looked up, not the DOI.
ExcludedByUrl(doi, excluded) == InList(DoiUrl(doi), excluded)

\* json_metadata['dois'][0]['value'] in dois_to_exclude (line 121)
Excluded(doi, excluded) == InList(doi, excluded)

get_ris(json_entry, target, keep, excluded) ==
  LET json_metadata == json_entry.metadata
      record_url == "https://inspirehep.net/record/" \o json_entry.id
  IN IF ~HasKey(json_metadata, "dois") THEN Return(<< >>)
     ELSE IF json_metadata.dois = << >> THEN Raise("IndexError")
     ELSE LET doi == json_metadata.dois[1].value
          IN IF Excluded(doi, excluded) THEN Return(<< >>)
             ELSE LET pub_idx == FirstWithYear(json_metadata.publication_info, 1)
                  IN IF pub_idx = 0 THEN Raise("RuntimeError")
                     ELSE LET pubinfo == json_metadata.publication_info[pub_idx]
                              ty == get_doctype(json_metadata.document_type[1])
                          IN IF ty.kind = "raise" THEN ty
                             ELSE IF ~HasKey(pubinfo, "journal_title")
                                     \/ ~HasKey(pubinfo, "journal_volume")
                                  THEN Raise("KeyError")
                             ELSE Authored(json_metadata,
                                    << Scalar("ty", ty.val),
                                       Scalar("py", ToString(pubinfo.year)),
                                       Scalar("jo", pubinfo.journal_title),
                                       Scalar("vl", pubinfo.journal_volume),
                                       Scalar("t1", json_metadata.titles[1].title),
                                       Scalar("do", DoiUrl(doi)),
                                       Scalar("db", "WoS"),
                                       Scalar("dp", "WoS"),
                                       Scalar("la", "English"),
                                       Scalar("ur", record_url) >>
                                    \o Optional(json_metadata, pubinfo),
                                    target, keep)

\* Line 195 of exclude_dois_from: the DOI of the value of a DO line.
NormalizeDoi(value) ==
  replace(replace(strip(value), "https", "http"), "http://dx.doi.org/", "")

\* Lines 190-196 of exclude_dois_from for one line: the DOIs it adds.
DoisOfLine(line) ==
  LET line_stripped == strip(line)
  IN IF startswith(line_stripped, "DO ")
     THEN LET line_split == split(line_stripped, " - ")
          IN IF Len(line_split) # 2 THEN Raise("RuntimeError")
             ELSE Return(<< NormalizeDoi(line_split[2]) >>)
     ELSE Return(<< >>)

RECURSIVE DoisOfLines(_)
DoisOfLines(lines) ==
  IF lines = << >> THEN Return(<< >>)
  ELSE LET first == DoisOfLine(Head(lines))
       IN IF first.kind = "raise" THEN first
          ELSE LET rest == DoisOfLines(Tail(lines))
               IN IF rest.kind = "raise" THEN rest
                  ELSE Return(first.val \o rest.val)

\* exclude_dois_from(fn), with files the decoded lines of the files that exist
exclude_dois_from(fn, files) ==
  IF fn = "" THEN Return(<< >>)
  ELSE IF fn \notin DOMAIN files THEN Raise("RuntimeError")
  ELSE DoisOfLines(files[fn])

---------------------------------------------------------------------------
(* The inputs the specifications draw from.                                *)

Home(n) == [full_name |-> n, affiliations |-> << [value |-> AFFIL] >>]
Away(n) == [full_name |-> n, affiliations |-> << [value |-> "CERN"] >>]
Bare(n) == [full_name |-> n]

Names == {"Ehataht, Karl", "Veelken, Christian"}

\* The authors of a record that matter to the selection.
Cores ==
  { << >>,
    << Home("Ehataht, Karl") >>,
    << Home("Ehatäht, Karl") >>,
    << Home("Veelken, Christian"), Away("Tani, Laurits"), Home("Ehataht, Karl") >>,
    << Away("Ehataht, Karl") >>,
    << Home("Kadastik, Mario") >> }

\* k co-authors without the home affiliation
Fillers(k) == [ i \in 1..k |-> IF i % 2 = 1 THEN Bare("Coauthor, A") ELSE Away("Coauthor, B") ]

FillerCounts == {0} \cup ((CollabAuthorLimit - 3)..MaxFillers)

AuthorLists == { core \o Fillers(k) : core \in Cores, k \in FillerCounts }

CollabNames == << "CMS", "ATLAS", "LHCb", "ALICE" >>

\* The first n collaborations, in the order the record lists them.
Collabs(n) == [ i \in 1..n |-> [value |-> CollabNames[((i - 1) % Len(CollabNames)) + 1]] ]

RecordDois == { "10.1/a", "10.1/https-b", "https://dx.doi.org/10.1/a" }

DoiLists == { << >> } \cup { << [value |-> d] >> : d \in RecordDois }

PubInfoNoYear == [journal_title |-> "JHEP", journal_volume |-> "01"]
PubInfoYear ==
  [year |-> 2021, journal_title |-> "JHEP", journal_volume |-> "01",
   page_start |-> "12", page_end |-> "34"]
PubInfoNoVolume == [year |-> 2021, journal_title |-> "JHEP"]

PubInfos == { << PubInfoNoYear >>, << PubInfoNoYear, PubInfoYear >>, << PubInfoNoVolume >> }

DocTypes == { "article", "conference paper", "thesis" }

BaseMetadata(pubinfos, doctype, authors) ==
  [publication_info |-> pubinfos,
   document_type |-> << doctype >>,
   titles |-> << [title |-> "A title"] >>,
   authors |-> authors]

\* f @@ [k |-> v] for a record f
With(f, k, v) == [ x \in DOMAIN f \cup {k} |-> IF x = k THEN v ELSE f[x] ]

Metadatas ==
  LET base == { BaseMetadata(p, t, a) : p \in PubInfos, t \in DocTypes, a \in AuthorLists }
      dois == base \cup { With(m, "dois", d) : m \in base, d \in DoiLists }
  IN dois \cup { With(m, "collaborations", Collabs(n)) : m \in dois, n \in 0..MaxCollabs }

Entries == { [id |-> "42", metadata |-> m] : m \in Metadatas }

\* The files --exclude may name: an export of another system and one of this program.
Files ==
  [ fn \in {"etis.ris", "own.ris"} |->
      IF fn = "etis.ris"
      THEN << "TY  - JOUR\n", "DO  - http://dx.doi.org/10.1/a\n", "ER  - \n" >>
      ELSE << "TY  - JOUR\n", "DO  - https://dx.doi.org/10.1/https-b\n", "AU  - Ehatäht, Karl\n" >> ]

ExclusionLists == { exclude_dois_from(fn, Files).val : fn \in {""} \cup DOMAIN Files }

---------------------------------------------------------------------------
(* The fetcher does not run in the function-level specifications.          *)

FetchOff ==
  /\ pc = "Off"
  /\ url = ""
  /\ page_nr = 1
  /\ nof_hits = -1
  /\ ris_data = << >>
  /\ error = ""
  /\ last_status = 0
  /\ requests = << >>
  /\ limited = << >>
  /\ consumed = 0
  /\ expected = 0

---------------------------------------------------------------------------
(* get_ris applied to one record.                                          *)

InitRis ==
  /\ FetchOff
  /\ name \in Names
  /\ keep_affiliation \in BOOLEAN
  /\ dois_to_exclude \in ExclusionLists
  /\ call \in { [fn |-> "get_ris", json_entry |-> e] : e \in Entries }
  /\ ret = NoRet

CallGetRis ==
  /\ call.fn = "get_ris"
  /\ ret = NoRet
  /\ ret' = get_ris(call.json_entry, name, keep_affiliation, dois_to_exclude)
  /\ UNCHANGED << fetch_vars, arg_vars, call >>

NextRis == CallGetRis

SpecRis == InitRis /\ [][NextRis]_vars

---------------------------------------------------------------------------
(* select applied to one author list.                                      *)

InitSelect ==
  /\ FetchOff
  /\ name \in Names
  /\ keep_affiliation \in BOOLEAN
  /\ dois_to_exclude = << >>
  /\ call \in { [fn |-> "select", authors |-> a] : a \in AuthorLists }
  /\ ret = NoRet

CallSelect ==
  /\ call.fn = "select"
  /\ ret = NoRet
  /\ ret' = select(call.authors, name, keep_affiliation)
  /\ UNCHANGED << fetch_vars, arg_vars, call >>

NextSelect == CallSelect

SpecSelect == InitSelect /\ [][NextSelect]_vars

---------------------------------------------------------------------------
(* The collaboration string of one list of collaborations.                 *)

RECURSIVE SeqsUpTo(_, _)
\* the sequences over S of length 1..n
SeqsUpTo(S, n) ==
  IF n = 0 THEN { }
  ELSE LET shorter == SeqsUpTo(S, n - 1)
       IN { << x >> : x \in S } \cup { Append(q, x) : q \in shorter, x \in S }

CollabLists ==
  SeqsUpTo({ [value |-> CollabNames[i]] : i \in 1..Len(CollabNames) }, MaxCollabs)

InitCollab ==
  /\ FetchOff
  /\ name \in Names
  /\ keep_affiliation = FALSE
  /\ dois_to_exclude = << >>
  /\ call \in { [fn |-> "collab_str", collaborations |-> c] : c \in CollabLists }
  /\ ret = NoRet

CallCollabStr ==
  /\ call.fn = "collab_str"
  /\ ret = NoRet
  /\ ret' = collab_str(call.collaborations)
  /\ UNCHANGED << fetch_vars, arg_vars, call >>

NextCollab == CallCollabStr

SpecCollab == InitCollab /\ [][NextCollab]_vars

---------------------------------------------------------------------------
(* A DOI exported by get_ris and read back by exclude_dois_from.           *)

\* Every DOI of the model is 10.1/ followed by some of these parts.
DoiParts == { "a", "s", ".", "-", "http", "https", "://dx.doi.org/", "10.1/" }

RECURSIVE Concat(_)
Concat(parts) == IF parts = << >> THEN "" ELSE Head(parts) \o Concat(Tail(parts))

DoiStrings == { "10.1/" \o Concat(q) : q \in SeqsUpTo(DoiParts, MaxParts) }

InitDoi ==
  /\ FetchOff
  /\ name \in Names
  /\ keep_affiliation = FALSE
  /\ dois_to_exclude = << >>
  /\ call \in { [fn |-> "export", doi |-> d, line |-> ""] : d \in DoiStrings }
  /\ ret = NoRet

\* get_ris writes the do field of the record as one line of the export.
ExportDoi ==
  /\ call.fn = "export"
  /\ call' = [call EXCEPT !.fn = "exclude_dois_from",
                          !.line = ris_lines(<< Scalar("do", DoiUrl(call.doi)) >>)[1]]
  /\ UNCHANGED << fetch_vars, arg_vars, ret >>

\* exclude_dois_from reads that line back from the file.
LoadDoi ==
  /\ call.fn = "exclude_dois_from"
  /\ ret = NoRet
  /\ ret' = exclude_dois_from("export.ris", [fn \in {"export.ris"} |-> << call.line \o "\n" >>])
  /\ UNCHANGED << fetch_vars, arg_vars, call >>

NextDoi == ExportDoi \/ LoadDoi

SpecDoi == InitDoi /\ [][NextDoi]_vars

---------------------------------------------------------------------------
(* The fetch loop of __main__ against a server of at most MaxPages pages.  *)

\* The URL of page i: the query URL for page 1, the server's next links after it.
URL(i) == "https://inspirehep.net/api/literature?page=" \o ToString(i)

Urls == { URL(i) : i \in 1..MaxPages }

PageOf(u) == CHOOSE i \in 1..MaxPages : URL(i) = u

\* The status codes the server answers with.
Statuses == { 200, 204, 404, 429, 500 }

RecordOf(id, doi_list, pubinfos, authors) ==
  [id |-> id,
   metadata |-> IF doi_list = << >> THEN BaseMetadata(pubinfos, "article", authors)
                ELSE With(BaseMetadata(pubinfos, "article", authors), "dois", doi_list)]

\* The records the server holds: one of the target's own, one that the file
\* etis.ris lists, and one of another author of the institute.
Catalogue ==
  { RecordOf("1", << [value |-> "10.1/k"] >>, << PubInfoYear >>, << Home("Ehataht, Karl") >>),
    RecordOf("2", << [value |-> "10.1/a"] >>, << PubInfoYear >>, << Home("Ehatäht, Karl") >>),
    RecordOf("3", << [value |-> "10.1/f"] >>, << PubInfoYear >>, << Home("Kadastik, Mario") >>) }

\* hits['hits'] of a response: at most MaxPerPage records
HitLists == { << >> } \cup SeqsUpTo(Catalogue, MaxPerPage)

\* hits['total'] of a response
Totals == { MaxPages * MaxPerPage }

\* links of the response to the request for page i: the last page has no next
Links(i) ==
  { [self |-> URL(i)] } \cup
  (IF i < MaxPages THEN { [self |-> URL(i), next |-> URL(i + 1)] } ELSE { })

\* A plausible slip: the block of a dropped record is appended too.
RECURSIVE ProcessPageKeepsEmpty(_, _, _, _, _)
ProcessPageKeepsEmpty(json_hits_data, data, target, keep, excluded) ==
  IF json_hits_data = << >> THEN [data |-> data, exc |-> ""]
  ELSE LET ris == get_ris(Head(json_hits_data), target, keep, excluded)
       IN IF ris.kind = "raise" THEN [data |-> data, exc |-> ris.exc]
          ELSE ProcessPageKeepsEmpty(Tail(json_hits_data),
                                     Append(data, join("\n", ris.val)),
                                     target, keep, excluded)

\* Lines 290-293: the records of a page in order, until get_ris raises.
RECURSIVE ProcessPage(_, _, _, _, _)
ProcessPage(json_hits_data, data, target, keep, excluded) ==
  IF json_hits_data = << >> THEN [data |-> data, exc |-> ""]
  ELSE LET ris == get_ris(Head(json_hits_data), target, keep, excluded)
       IN IF ris.kind = "raise" THEN [data |-> data, exc |-> ris.exc]
          ELSE ProcessPage(Tail(json_hits_data),
                           IF ris.val # << >> THEN Append(data, join("\n", ris.val))
                           ELSE data,
                           target, keep, excluded)

\* Line 296: the URL of the next request, '' to leave the loop
NextUrl(json_links) == IF HasKey(json_links, "next") THEN json_links.next ELSE ""

\* A plausible slip: every 2xx status counts as success.
ClassifyAny2xx(status_code) ==
  IF status_code = 429 THEN "RateLimited"
  ELSE IF status_code < 200 \/ status_code > 299 THEN "Fatal"
  ELSE "Success"

\* Lines 272-277: what the loop does with a response of this status
Classify(status_code) ==
  IF status_code = 429 THEN "RateLimited"
  ELSE IF status_code # 200 THEN "Fatal"
  ELSE "Success"

\* The records of a page for which get_ris returns lines.
NonDropped(json_hits_data, target, keep, excluded) ==
  Cardinality({ i \in 1..Len(json_hits_data) :
                  LET ris == get_ris(json_hits_data[i], target, keep, excluded)
                  IN ris.kind = "return" /\ ris.val # << >> })

FunctionsOff ==
  /\ call = [fn |-> "main"]
  /\ ret = NoRet

Init ==
  /\ pc = "Idle"
  /\ url = URL(1)
  /\ page_nr = 1
  /\ nof_hits = -1
  /\ ris_data = << >>
  /\ error = ""
  /\ last_status = 0
  /\ requests = [u \in Urls |-> 0]
  /\ limited = [u \in Urls |-> 0]
  /\ consumed = 0
  /\ expected = 0
  /\ name = "Ehataht, Karl"
  /\ keep_affiliation \in BOOLEAN
  /\ dois_to_exclude = exclude_dois_from("etis.ris", Files).val
  /\ FunctionsOff

\* Lines 269-271: the loop condition holds and the request goes out.
IssueRequest ==
  /\ pc = "Idle"
  /\ url # ""
  /\ pc' = "AwaitingResponse"
  /\ requests' = [requests EXCEPT ![url] = @ + 1]
  /\ last_status' = 0
  /\ UNCHANGED << url, page_nr, nof_hits, ris_data, error, limited, consumed,
                  expected, arg_vars, call, ret >>

RECURSIVE SumTo(_, _)
\* the sum of f over the URLs of pages 1..i
SumTo(f, i) == IF i = 0 THEN 0 ELSE f[URL(i)] + SumTo(f, i - 1)

\* Line 272: the server answers 429 (Max429 times in a run at most).
RateLimit ==
  /\ pc = "AwaitingResponse"
  /\ SumTo(limited, MaxPages) < Max429
  /\ \E status_code \in Statuses :
       /\ Classify(status_code) = "RateLimited"
       /\ last_status' = status_code
  /\ pc' = "RateLimited"
  /\ limited' = [limited EXCEPT ![url] = @ + 1]
  /\ UNCHANGED << url, page_nr, nof_hits, ris_data, error, requests, consumed,
                  expected, arg_vars, call, ret >>

\* A plausible slip: the cooldown over, the loop gives the URL up.
RetryDropsUrl ==
  /\ pc = "RateLimited"
  /\ pc' = "Idle"
  /\ url' = ""
  /\ UNCHANGED << page_nr, nof_hits, ris_data, error, last_status, requests,
                  limited, consumed, expected, arg_vars, call, ret >>

\* Lines 274-275: time.sleep(6); continue, with url as it was.
Retry ==
  /\ pc = "RateLimited"
  /\ pc' = "Idle"
  /\ UNCHANGED << url, page_nr, nof_hits, ris_data, error, last_status, requests,
                  limited, consumed, expected, arg_vars, call, ret >>

\* Lines 276-277: any status but 200 and 429 raises RuntimeError.
Fail ==
  /\ pc = "AwaitingResponse"
  /\ \E status_code \in Statuses :
       /\ Classify(status_code) = "Fatal"
       /\ last_status' = status_code
  /\ pc' = "Fatal"
  /\ error' = "RuntimeError: status code"
  /\ UNCHANGED << url, page_nr, nof_hits, ris_data, requests, limited, consumed,
                  expected, arg_vars, call, ret >>

\* Lines 279-296: a 200 response; its records go through get_ris in order.
Succeed ==
  /\ pc = "AwaitingResponse"
  /\ \E status_code \in Statuses :
       /\ Classify(status_code) = "Success"
       /\ last_status' = status_code
  /\ \E json_hits \in [total : Totals, hits : HitLists] :
       LET done == ProcessPage(json_hits.hits, ris_data, name, keep_affiliation,
                               dois_to_exclude)
       IN /\ nof_hits' = IF nof_hits < 0 THEN json_hits.total ELSE nof_hits
          /\ page_nr' = page_nr + 1
          /\ ris_data' = done.data
          /\ IF done.exc # ""
             THEN /\ pc' = "Fatal"
                  /\ error' = done.exc
                  /\ UNCHANGED << url, consumed, expected >>
             ELSE /\ pc' = "Idle"
                  /\ consumed' = consumed + 1
                  /\ expected' = expected + NonDropped(json_hits.hits, name,
                                                       keep_affiliation, dois_to_exclude)
                  /\ \E json_links \in Links(PageOf(url)) : url' = NextUrl(json_links)
                  /\ UNCHANGED error
  /\ UNCHANGED << requests, limited, arg_vars, call, ret >>

\* Lines 269 and 298-304: url is '', the loop ends and the blocks are written.
Finish ==
  /\ pc = "Idle"
  /\ url = ""
  /\ pc' = "Done"
  /\ UNCHANGED << url, page_nr, nof_hits, ris_data, error, last_status, requests,
                  limited, consumed, expected, arg_vars, call, ret >>

Next == IssueRequest \/ RateLimit \/ Retry \/ Fail \/ Succeed \/ Finish

Spec == Init /\ [][Next]_vars

---------------------------------------------------------------------------
(* Properties of the fetch loop, checked under Spec.                       *)

\* The pages whose 200 response was processed to the end.
ConsumedUrls == { URL(i) : i \in 1..consumed }

\* C1: a URL answered 429 k times and then 200 was requested exactly k + 1 times:
\* while rate-limited the loop holds on to the URL it asked for, every request of
\* that URL so far having been answered 429, and a run that ends has asked every
\* URL it touched once more than that URL was answered 429, and ends without error.
C1_RateLimitRecovery ==
  /\ \A u \in ConsumedUrls : requests[u] = limited[u] + 1
  /\ pc = "RateLimited" =>
       /\ url \in Urls
       /\ last_status = 429
       /\ requests[url] = limited[url]
  /\ (pc = "Idle" /\ url # "") => requests[url] = limited[url]
  /\ pc = "AwaitingResponse" => requests[url] = limited[url] + 1
  /\ pc = "Done" =>
       /\ error = ""
       /\ \A u \in Urls : requests[u] > 0 => requests[u] = limited[u] + 1

\* C1: the run ended after a URL was answered 429 twice and then 200: 3 requests.
C1_Witness ==
  /\ pc = "Done"
  /\ \E u \in Urls : limited[u] = 2 /\ requests[u] = 3

\* C2: once a page without a continuation link is consumed the loop can only end,
\* and a run that is done consumed exactly the pages up to that one, asked for no
\* page after it, can issue no further request, and holds as many export blocks
\* as records of those pages had non-empty output.
C2_PaginationTermination ==
  /\ (pc = "Idle" /\ url = "") => (ENABLED Finish /\ ~ENABLED IssueRequest)
  /\ (pc \in {"Idle", "Done"} /\ url = "") =>
       /\ consumed >= 1
       /\ page_nr = consumed + 1
       /\ \A i \in 1..MaxPages : (requests[URL(i)] > 0) <=> (i <= consumed)
       /\ Len(ris_data) = expected
  /\ pc = "Done" => (url = "" /\ error = "" /\ ~ENABLED Next)

\* C2: a run over three pages that kept some records and dropped others.
C2_Witness ==
  /\ pc = "Done"
  /\ consumed = 3
  /\ Len(ris_data) = 2
  /\ requests[URL(3)] = 1

\* C3 as stated: a response with a 2xx status never ends the run for its status.
C3_Any2xxIsSuccess ==
  (last_status >= 200 /\ last_status <= 299) =>
    ~(pc = "Fatal" /\ error = "RuntimeError: status code")

\* C3 as amended: only 200 is success (the page is processed, the loop goes on or
\* a record's exception ends the run), 429 is rate-limited, and every other status,
\* 2xx ones but 200 included, ends the run at once with no further request.
C3_StatusClassification ==
  /\ last_status = 200 =>
       \/ pc \in {"Idle", "Done"} /\ error = ""
       \/ pc = "Fatal" /\ error # "RuntimeError: status code"
  /\ last_status = 429 => pc \in {"RateLimited", "Idle"} /\ error = "" /\ url \in Urls
  /\ last_status \notin {0, 200, 429} =>
       /\ pc = "Fatal"
       /\ error = "RuntimeError: status code"
       /\ requests[url] = limited[url] + 1
  /\ pc = "Fatal" => ~ENABLED Next
  /\ (pc = "Fatal" /\ error = "RuntimeError: status code") => last_status \notin {0, 200, 429}

\* C3: the run ended on a 204, a 2xx status that is not 200.
C3_Witness ==
  /\ pc = "Fatal"
  /\ last_status = 204
  /\ error = "RuntimeError: status code"

---------------------------------------------------------------------------
(* Properties of get_ris, checked under SpecRis.                           *)

Called == ret.kind # "none"

Metadata == call.json_entry.metadata

HasPrimaryDoi == "dois" \in DOMAIN Metadata /\ Metadata.dois # << >>

PrimaryDoi == Metadata.dois[1].value

Dropped == ret = Return(<< >>)

\* The record passes every check of get_ris that precedes the author selection.
ReachesSelection ==
  /\ HasPrimaryDoi
  /\ ~InList(PrimaryDoi, dois_to_exclude)
  /\ \E i \in 1..Len(Metadata.publication_info) :
       /\ "year" \in DOMAIN Metadata.publication_info[i]
       /\ \A j \in 1..(i - 1) : "year" \notin DOMAIN Metadata.publication_info[j]
       /\ "journal_volume" \in DOMAIN Metadata.publication_info[i]
  /\ Metadata.document_type[1] \in {"article", "conference paper"}

\* The positions of the authors that carry the home affiliation.
HomeAuthors ==
  { i \in 1..Len(Metadata.authors) :
      /\ "affiliations" \in DOMAIN Metadata.authors[i]
      /\ \E j \in 1..Len(Metadata.authors[i].affiliations) :
           Metadata.authors[i].affiliations[j].value = "NICPB, Tallinn" }

C5_MissingDoiDropped ==
  (Called /\ ~HasPrimaryDoi) => Dropped

\* C6: with keep_affiliation unset, a record none of whose authors has the home
\* affiliation yields no line, and is dropped once it reaches the selection.
C6_NoHomeAuthorDropped ==
  (Called /\ ~keep_affiliation /\ HomeAuthors = { }) =>
    /\ ret.val = << >>
    /\ ReachesSelection => Dropped

\* C6: a record with authors, none of the institute, that reached the selection.
C6_Witness ==
  /\ Dropped
  /\ ~keep_affiliation
  /\ HomeAuthors = { }
  /\ ReachesSelection
  /\ Len(Metadata.authors) > 1
  /\ \E i \in 1..Len(Metadata.authors) : Metadata.authors[i].full_name = name

Survived == ret.kind = "return" /\ ret.val # << >>

WithCollabs == "collaborations" \in DOMAIN Metadata /\ Metadata.collaborations # << >>

CollabValues == [ i \in 1..Len(Metadata.collaborations) |-> Metadata.collaborations[i].value ]

IsAuLine(line) == startswith(line, "AU  - ")

AuLines == SelectSeq(ret.val, IsAuLine)

LastAu == AuLines[Len(AuLines)]

\* The general rule of C8: below 10 authors the last selected author carries the
\* credit and no author is added, from 10 on a final author et al. is added.
CollabRule ==
  /\ AuLines # << >>
  /\ Len(Metadata.authors) < 10 =>
       /\ Len(AuLines) = Cardinality(HomeAuthors)
       /\ ~startswith(LastAu, "AU  - et al. (")
       /\ \E i \in 1..(Len(LastAu) - 9) : SubSeq(LastAu, i, i + 9) = " (for the "
       /\ endswith(LastAu, " Collaboration)") \/ endswith(LastAu, " Collaborations)")
  /\ Len(Metadata.authors) >= 10 =>
       /\ Len(AuLines) = Cardinality(HomeAuthors) + 1
       /\ startswith(LastAu, "AU  - et al. (")
       /\ endswith(LastAu, " Collaboration)") \/ endswith(LastAu, " Collaborations)")
       /\ \A i \in 1..(Len(AuLines) - 1) : ~endswith(AuLines[i], ")")

NineAuthorsCms == Len(Metadata.authors) = 9 /\ CollabValues = << "CMS" >>

TwelveAuthorsCmsAtlas == Len(Metadata.authors) = 12 /\ CollabValues = << "CMS", "ATLAS" >>

\* C8 as stated: the rule, with 12 authors of CMS and ATLAS credited in that order.
C8_CmsAndAtlas ==
  (Survived /\ WithCollabs) =>
    /\ CollabRule
    /\ NineAuthorsCms => endswith(LastAu, "(for the CMS Collaboration)")
    /\ TwelveAuthorsCmsAtlas => LastAu = "AU  - et al. (CMS and ATLAS Collaborations)"

\* C8 as amended: the rule, with the collaborations credited in sorted order:
\* 12 authors of CMS and ATLAS add the author et al. (ATLAS and CMS Collaborations).
C8_CollaborationNaming ==
  (Survived /\ WithCollabs) =>
    /\ CollabRule
    /\ NineAuthorsCms => endswith(LastAu, "(for the CMS Collaboration)")
    /\ TwelveAuthorsCmsAtlas => LastAu = "AU  - et al. (ATLAS and CMS Collaborations)"

\* C8: a surviving record of 12 authors with the collaborations CMS and ATLAS.
C8_Witness ==
  /\ Survived
  /\ WithCollabs
  /\ TwelveAuthorsCmsAtlas
  /\ LastAu = "AU  - et al. (ATLAS and CMS Collaborations)"
  /\ Len(AuLines) = 2

---------------------------------------------------------------------------
(* Properties of select, checked under SpecSelect.                         *)

\* The names of the authors of the call that carry the home affiliation.
HomeNames ==
  { call.authors[i].full_name : i \in
      { j \in 1..Len(call.authors) :
          /\ "affiliations" \in DOMAIN call.authors[j]
          /\ \E k \in 1..Len(call.authors[j].affiliations) :
               call.authors[j].affiliations[k].value = "NICPB, Tallinn" } }

Resolved(n) == IF n \in DOMAIN ALIASES THEN ALIASES[n] ELSE n

\* C7: with keep_affiliation set and neither the target nor its alias among the
\* affiliated authors, select returns a sorted, alias-resolved list with the target.
C7_OverrideAppendsTarget ==
  (/\ Called
   /\ keep_affiliation
   /\ name \notin HomeNames
   /\ ~(name \in DOMAIN ALIASES /\ ALIASES[name] \in HomeNames)) =>
    /\ ret.kind = "return"
    /\ InList(Resolved(name), ret.val)
    /\ \A i \in 1..(Len(ret.val) - 1) : ~StrLess(ret.val[i + 1], ret.val[i])

---------------------------------------------------------------------------
(* Properties of the collaboration string, checked under SpecCollab.       *)

\* The code point order of the collaboration names of the model.
CollabRank(c) ==
  CASE c = "ALICE" -> 1 [] c = "ATLAS" -> 2 [] c = "CMS" -> 3 [] c = "LHCb" -> 4

CallValues == [ i \in 1..Len(call.collaborations) |-> call.collaborations[i].value ]

\* The names of the call in ascending order.
RankedValues ==
  CHOOSE q \in [1..Len(CallValues) -> { CallValues[i] : i \in 1..Len(CallValues) }] :
    /\ \A i \in 1..(Len(q) - 1) : CollabRank(q[i]) <= CollabRank(q[i + 1])
    /\ \A c \in { CallValues[i] : i \in 1..Len(CallValues) } :
         Cardinality({ i \in 1..Len(q) : q[i] = c }) =
         Cardinality({ i \in 1..Len(CallValues) : CallValues[i] = c })

Plural == IF Len(CallValues) > 1 THEN " Collaborations" ELSE " Collaboration"

\* C10 as stated: sorted names joined with a comma before the final and from three
\* names on, followed by Collaboration for one name and Collaborations for more.
C10_OxfordJoin ==
  Called =>
    LET q == RankedValues
        n == Len(q)
    IN ret = Return((IF n = 1 THEN q[1]
                     ELSE IF n = 2 THEN q[1] \o " and " \o q[2]
                     ELSE join(", ", SubSeq(q, 1, n - 1)) \o ", and " \o q[n]) \o Plural)

\* C10 as amended: sorted names joined as A, A and B, or A, B and C (no comma
\* before the final and), followed by Collaboration or Collaborations.
C10_PlainJoin ==
  Called =>
    LET q == RankedValues
        n == Len(q)
    IN ret = Return((IF n = 1 THEN q[1]
                     ELSE IF n = 2 THEN q[1] \o " and " \o q[2]
                     ELSE join(", ", SubSeq(q, 1, n - 1)) \o " and " \o q[n]) \o Plural)

\* C10: three collaborations given out of order.
C10_Witness ==
  /\ CallValues = << "CMS", "ATLAS", "ALICE" >>
  /\ ret = Return("ALICE, ATLAS and CMS Collaborations")

---------------------------------------------------------------------------
(* The DOI round trip, checked under SpecDoi.                              *)

\* C9: the DO line get_ris writes for a DOI, read back by exclude_dois_from,
\* yields exactly that DOI.
C9_DoiRoundTrip ==
  Called => ret = Return(<< call.doi >>)

=============================================================================
